---- MODULE Spec2Model ----
(***************************************************************************)
(* Model of src/types/traces.rs: the types of the Parity ad-hoc trace API  *)
(* and the wire mapping their serde derives generate, as run through       *)
(* serde_json (to_string / from_str) in the module's tests.                *)
(*                                                                         *)
(* A wire value is a JSON tree.  An object is an ordered sequence of       *)
(* key/value entries, so key order and duplicate keys are observable.      *)
(***************************************************************************)
EXTENDS Integers, Sequences, FiniteSets, TLC

VARIABLES ty, val, frames, origin, ser, wire, dropped, left, remaining_depth, res,
          wire2,
          pc, mapA, mapB, insA, insB, lastA, lastB

vars == <<ty, val, frames, origin, ser, wire, dropped, left, remaining_depth, res,
          wire2,
          pc, mapA, mapB, insA, insB, lastA, lastB>>

\* ---------------------------------------------------------------- bounds
\* Deepest VMTrace -> VMOperation.sub -> VMTrace chain that Wrap builds.
MaxNest == 44
\* Most keys DropKey removes from one encoded object.
MaxDrops == 3
\* Longest batch of BlockTrace payloads.
MaxBatch == 2
\* Longest sequence of TraceType values.
MaxTypes == 3
\* Addresses 1..MaxAddr are inserted into the StateDiff maps under construction.
MaxAddr == 2

\* ------------------------------------------------------------ JSON values
JNull == [t |-> "null"]
JStr(s) == [t |-> "str", s |-> s]
JNum(n) == [t |-> "num", n |-> n]
JArr(a) == [t |-> "arr", a |-> a]
JObj(m) == [t |-> "obj", m |-> m]
KV(k, v) == [k |-> k, v |-> v]

\* ------------------------------------------------------- Result / Option
Ok(v) == [ok |-> TRUE, v |-> v]
Err(e) == [ok |-> FALSE, err |-> e]
None == [some |-> FALSE]
Some(x) == [some |-> TRUE, val |-> x]

\* serde / serde_json error families
EMissing == "missing field"
EDuplicate == "duplicate field"
EUnknownVariant == "unknown variant"
EInvalidType == "invalid type"
EInvalidLength == "invalid length"
ETrailing == "trailing characters"
EExpectedValue == "expected value"
EInvalidValue == "invalid value"
ERecursion == "recursion limit exceeded"

\* serde_json::from_str builds its Deserializer with remaining_depth = 128.
RecursionLimit == 128

\* ------------------------------------------------------- type descriptors
PrimT(p) == [k |-> "prim", p |-> p]
OptionT(T) == [k |-> "option", of |-> T]
VecT(T) == [k |-> "vec", of |-> T]
StructT(n) == [k |-> "struct", name |-> n, arg |-> PrimT("unit")]
GenericT(n, T) == [k |-> "struct", name |-> n, arg |-> T]
EnumT(n, T) == [k |-> "enum", name |-> n, arg |-> T]
MapT(K, T) == [k |-> "map", key |-> K, of |-> T]
NewtypeT(T) == [k |-> "newtype", of |-> T]

\* One struct field: its Rust name, its wire name (serde rename), its type.
F(name, wname, T) == [name |-> name, wname |-> wname, ty |-> T]
\* One enum variant: its Rust name, its wire tag, unit or newtype, its payload.
V(name, tag, kind, T) == [name |-> name, tag |-> tag, kind |-> kind, ty |-> T]
\* The record field that holds a newtype variant's payload: c for a struct
\* payload (Changed's ChangedType), v for a plain value.
Slot(var) == IF var.ty.k = "struct" THEN "c" ELSE "v"

\* --------------------------------------------- schemas of src/types/traces.rs
BytesT == PrimT("Bytes")
U256T == PrimT("U256")
H256T == PrimT("H256")
H160T == PrimT("H160")
UsizeT == PrimT("usize")
U64T == PrimT("u64")

\* (mutant) the variants without their serde renames.
TraceTypeUnrenamed ==
    << V("Trace", "Trace", "unit", PrimT("unit")),
       V("VmTrace", "VmTrace", "unit", PrimT("unit")),
       V("StateDiff", "StateDiff", "unit", PrimT("unit")) >>

TraceType ==
    << V("Trace", "trace", "unit", PrimT("unit")),
       V("VmTrace", "vmTrace", "unit", PrimT("unit")),
       V("StateDiff", "stateDiff", "unit", PrimT("unit")) >>

ChangedType(T) == << F("from", "from", T), F("to", "to", T) >>

Diff(T) ==
    << V("Same", "=", "unit", PrimT("unit")),
       V("Born", "+", "newtype", T),
       V("Died", "-", "newtype", T),
       V("Changed", "*", "newtype", GenericT("ChangedType", T)) >>

DiffT(T) == EnumT("Diff", T)

AccountDiff ==
    << F("balance", "balance", DiffT(U256T)),
       F("nonce", "nonce", DiffT(U256T)),
       F("code", "code", DiffT(BytesT)),
       F("storage", "storage", MapT("H256", DiffT(H256T))) >>

StateDiff == NewtypeT(MapT("H160", StructT("AccountDiff")))

TransactionTrace ==
    << F("trace_address", "traceAddress", VecT(UsizeT)),
       F("subtraces", "subtraces", UsizeT),
       F("action", "action", PrimT("Action")),
       F("action_type", "type", PrimT("ActionType")),
       F("result", "result", OptionT(PrimT("Res"))),
       F("error", "error", OptionT(PrimT("String"))) >>

VMTrace ==
    << F("code", "code", BytesT),
       F("ops", "ops", VecT(StructT("VMOperation"))) >>

VMOperation ==
    << F("pc", "pc", UsizeT),
       F("cost", "cost", U64T),
       F("ex", "ex", OptionT(StructT("VMExecutedOperation"))),
       F("sub", "sub", OptionT(StructT("VMTrace"))) >>

VMExecutedOperation ==
    << F("used", "used", U64T),
       F("push", "push", VecT(U256T)),
       F("mem", "mem", OptionT(StructT("MemoryDiff"))),
       F("store", "store", OptionT(StructT("StorageDiff"))) >>

MemoryDiff == << F("off", "off", UsizeT), F("data", "data", BytesT) >>

StorageDiff == << F("key", "key", U256T), F("val", "val", U256T) >>

BlockTrace ==
    << F("output", "output", BytesT),
       F("trace", "trace", OptionT(VecT(StructT("TransactionTrace")))),
       F("vm_trace", "vmTrace", OptionT(StructT("VMTrace"))),
       F("state_diff", "stateDiff", OptionT(StateDiff)),
       F("transaction_hash", "transactionHash", OptionT(H256T)) >>

\* The fields the derive of struct S walks, in declaration order.
Fields(S) ==
    CASE S.name = "BlockTrace" -> BlockTrace
      [] S.name = "ChangedType" -> ChangedType(S.arg)
      [] S.name = "AccountDiff" -> AccountDiff
      [] S.name = "TransactionTrace" -> TransactionTrace
      [] S.name = "VMTrace" -> VMTrace
      [] S.name = "VMOperation" -> VMOperation
      [] S.name = "VMExecutedOperation" -> VMExecutedOperation
      [] S.name = "MemoryDiff" -> MemoryDiff
      [] S.name = "StorageDiff" -> StorageDiff

\* The variants the derive of enum E dispatches on.
Variants(E) ==
    CASE E.name = "Diff" -> Diff(E.arg)
      [] E.name = "TraceType" -> TraceType

\* ------------------------------------- primitive codecs of crate::types
\* Each primitive is a table of (in-memory value, wire string or object).
PrimTable(p) ==
    CASE p = "Bytes" -> << [v |-> <<>>, w |-> JStr("0x")],
                           [v |-> <<255>>, w |-> JStr("0xff")] >>
      [] p = "U256" -> << [v |-> 0, w |-> JStr("0x0")],
                          [v |-> 1, w |-> JStr("0x1")] >>
      [] p = "H256" -> << [v |-> 1, w |-> JStr("0x0000000000000000000000000000000000000000000000000000000000000001")],
                          [v |-> 2, w |-> JStr("0x0000000000000000000000000000000000000000000000000000000000000002")],
                          [v |-> 3, w |-> JStr("0x0000000000000000000000000000000000000000000000000000000000000003")] >>
      [] p = "H160" -> << [v |-> 1, w |-> JStr("0x0000000000000000000000000000000000000001")],
                          [v |-> 2, w |-> JStr("0x0000000000000000000000000000000000000002")],
                          [v |-> 3, w |-> JStr("0x0000000000000000000000000000000000000003")] >>
      [] p = "String" -> << [v |-> "Reverted", w |-> JStr("Reverted")],
                            [v |-> "Out of gas", w |-> JStr("Out of gas")] >>
      [] p = "ActionType" -> << [v |-> "Call", w |-> JStr("call")],
                                [v |-> "Create", w |-> JStr("create")] >>
      [] p = "Action" ->
            << [v |-> "CallAction",
                w |-> JObj(<<KV("callType", JStr("call")), KV("gas", JStr("0x0"))>>)],
               [v |-> "CreateAction",
                w |-> JObj(<<KV("init", JStr("0x")), KV("gas", JStr("0x0"))>>)] >>
      [] p = "Res" ->
            << [v |-> "CallRes",
                w |-> JObj(<<KV("gasUsed", JStr("0x0")), KV("output", JStr("0x"))>>)],
               [v |-> "CreateRes",
                w |-> JObj(<<KV("gasUsed", JStr("0x0")), KV("code", JStr("0x"))>>)] >>

IsUint(p) == p \in {"usize", "u64"}

EncPrim(p, v) ==
    IF IsUint(p) THEN JNum(v)
    ELSE LET tab == PrimTable(p)
         IN  tab[CHOOSE i \in 1..Len(tab) : tab[i].v = v].w

DecPrim(p, w) ==
    IF IsUint(p)
    THEN IF w.t # "num" THEN Err(EInvalidType)
         ELSE IF w.n < 0 THEN Err(EInvalidValue) ELSE Ok(w.n)
    ELSE LET tab == PrimTable(p)
             hit == {i \in 1..Len(tab) : tab[i].w = w}
         IN  IF hit = {} THEN Err(EInvalidValue)
             ELSE Ok(tab[CHOOSE i \in hit : TRUE].v)

\* Ord of the map keys: H160 and H256 compare as big-endian numbers.
KeyLess(a, b) == a < b

\* ------------------------------------------------------------ BTreeMap
\* A BTreeMap is the sequence of its entries in ascending key order.
BTreeNew == <<>>
Entry(k, v) == [key |-> k, value |-> v]

\* (mutant) entries kept in insertion order.
BTreeInsertAppend(m, k, v) ==
    SelectSeq(m, LAMBDA e : e.key # k) \o <<Entry(k, v)>>

BTreeInsert(m, k, v) ==
    SelectSeq(m, LAMBDA e : KeyLess(e.key, k))
        \o <<Entry(k, v)>>
        \o SelectSeq(m, LAMBDA e : KeyLess(k, e.key))

BTreeKeys(m) == {m[i].key : i \in 1..Len(m)}

BTreeGet(m, k) == m[CHOOSE i \in 1..Len(m) : m[i].key = k].value

\* ------------------------------------------------- Serialize (derived)
Variant(E, name) ==
    LET vs == Variants(E)
    IN  vs[CHOOSE i \in 1..Len(vs) : vs[i].name = name]

RECURSIVE Enc(_, _)
Enc(T, v) ==
    CASE T.k = "prim" -> EncPrim(T.p, v)
      [] T.k = "option" -> IF v.some THEN Enc(T.of, v.val) ELSE JNull
      [] T.k = "vec" -> JArr([i \in 1..Len(v) |-> Enc(T.of, v[i])])
      [] T.k = "struct" ->
            LET fs == Fields(T)
            IN  JObj([i \in 1..Len(fs) |-> KV(fs[i].wname, Enc(fs[i].ty, v[fs[i].name]))])
      [] T.k = "enum" ->
            LET var == Variant(T, v.d)
            IN  IF var.kind = "unit" THEN JStr(var.tag)
                ELSE JObj(<<KV(var.tag, Enc(var.ty, v[Slot(var)]))>>)
      [] T.k = "map" ->
            JObj([i \in 1..Len(v) |-> KV(EncPrim(T.key, v[i].key).s, Enc(T.of, v[i].value))])
      [] T.k = "newtype" -> Enc(T.of, v)

\* serde_json::to_string: none of these types has a failing Serialize impl.
to_string(T, v) == Ok(Enc(T, v))

\* ----------------------------------------------- Deserialize (derived)
EmptyAcc == [x \in {} |-> None]

\* (mutants) every absent field is an error; an absent Vec field is empty,
\* as under #[serde(default)].
FinishStructStrict(fs, acc) ==
    IF \E j \in 1..Len(fs) : fs[j].name \notin DOMAIN acc THEN Err(EMissing)
    ELSE Ok([n \in {fs[j].name : j \in 1..Len(fs)} |-> acc[n]])

FinishStructDefault(fs, acc) ==
    LET missing == {j \in 1..Len(fs) :
                      fs[j].name \notin DOMAIN acc /\ fs[j].ty.k \notin {"option", "vec"}}
        absent(n) == LET f == fs[CHOOSE j \in 1..Len(fs) : fs[j].name = n]
                     IN  IF f.ty.k = "vec" THEN <<>> ELSE None
    IN  IF missing # {} THEN Err(EMissing)
        ELSE Ok([n \in {fs[j].name : j \in 1..Len(fs)} |->
                    IF n \in DOMAIN acc THEN acc[n] ELSE absent(n)])

\* After the last key: an absent Option field is None, any other is an error.
FinishStruct(fs, acc) ==
    LET missing == {j \in 1..Len(fs) :
                      fs[j].name \notin DOMAIN acc /\ fs[j].ty.k # "option"}
    IN  IF missing # {} THEN Err(EMissing)
        ELSE Ok([n \in {fs[j].name : j \in 1..Len(fs)} |->
                    IF n \in DOMAIN acc THEN acc[n] ELSE None])

RECURSIVE Dec(_, _, _)
RECURSIVE DecElems(_, _, _, _)
RECURSIVE DecStructMap(_, _, _, _, _)
RECURSIVE DecStructSeq(_, _, _, _, _)
RECURSIVE DecMapEntries(_, _, _, _, _)

\* (mutant) the elements pushed to the front, so the result is reversed.
DecElemsReversed(T, a, i, rem) ==
    IF i > Len(a) THEN Ok(<<>>)
    ELSE LET h == Dec(T, a[i], rem)
         IN  IF ~h.ok THEN h
             ELSE LET r == DecElems(T, a, i + 1, rem)
                  IN  IF ~r.ok THEN r ELSE Ok(r.v \o <<h.v>>)

\* Vec<T>: the elements in wire order, stopping at the first error.
DecElems(T, a, i, rem) ==
    IF i > Len(a) THEN Ok(<<>>)
    ELSE LET h == Dec(T, a[i], rem)
         IN  IF ~h.ok THEN h
             ELSE LET r == DecElems(T, a, i + 1, rem)
                  IN  IF ~r.ok THEN r ELSE Ok(<<h.v>> \o r.v)

\* visit_map of a derived struct: keys in wire order, unknown keys skipped.
DecStructMap(fs, m, i, acc, rem) ==
    IF i > Len(m) THEN FinishStruct(fs, acc)
    ELSE LET hit == {j \in 1..Len(fs) : fs[j].wname = m[i].k}
         IN  IF hit = {} THEN DecStructMap(fs, m, i + 1, acc, rem)
             ELSE LET f == fs[CHOOSE j \in hit : TRUE]
                  IN  IF f.name \in DOMAIN acc THEN Err(EDuplicate)
                      ELSE LET r == Dec(f.ty, m[i].v, rem)
                           IN  IF ~r.ok THEN r
                               ELSE DecStructMap(fs, m, i + 1,
                                                 acc @@ (f.name :> r.v), rem)

\* visit_seq of a derived struct: the fields by position.
DecStructSeq(fs, a, i, acc, rem) ==
    IF i > Len(fs)
    THEN IF Len(a) > Len(fs) THEN Err(ETrailing) ELSE FinishStruct(fs, acc)
    ELSE IF i > Len(a) THEN Err(EInvalidLength)
    ELSE LET r == Dec(fs[i].ty, a[i], rem)
         IN  IF ~r.ok THEN r
             ELSE DecStructSeq(fs, a, i + 1, acc @@ (fs[i].name :> r.v), rem)

\* BTreeMap<K, V>: each entry inserted in wire order.
DecMapEntries(T, m, i, acc, rem) ==
    IF i > Len(m) THEN Ok(acc)
    ELSE LET key == DecPrim(T.key, JStr(m[i].k))
         IN  IF ~key.ok THEN key
             ELSE LET r == Dec(T.of, m[i].v, rem)
                  IN  IF ~r.ok THEN r
                      ELSE DecMapEntries(T, m, i + 1,
                                         BTreeInsert(acc, key.v, r.v), rem)

\* The variant identifier visitor: the variants whose wire tag is `tag`.
FindVariant(vs, tag) == {j \in 1..Len(vs) : vs[j].tag = tag}

\* unit_variant of the map form {"tag": payload}: the payload decodes as ().
UnitPayloadAny(p) == TRUE

UnitPayload(p) == p.t = "null"

\* An externally tagged enum: "tag" for a unit variant, {"tag": payload}.
DecEnum(T, w, rem) ==
    LET vs == Variants(T)
    IN  IF w.t = "str"
        THEN IF FindVariant(vs, w.s) = {} THEN Err(EUnknownVariant)
             ELSE LET var == vs[CHOOSE j \in FindVariant(vs, w.s) : TRUE]
                  IN  IF var.kind = "unit" THEN Ok([d |-> var.name])
                      ELSE Err(EInvalidType)
        ELSE IF w.t = "obj"
        THEN IF rem - 1 = 0 THEN Err(ERecursion)
             ELSE IF Len(w.m) = 0 THEN Err(EExpectedValue)
             ELSE IF FindVariant(vs, w.m[1].k) = {} THEN Err(EUnknownVariant)
             ELSE LET var == vs[CHOOSE j \in FindVariant(vs, w.m[1].k) : TRUE]
                      r == IF var.kind = "unit"
                           THEN IF UnitPayload(w.m[1].v) THEN Ok([d |-> var.name])
                                ELSE Err(EInvalidType)
                           ELSE LET p == Dec(var.ty, w.m[1].v, rem - 1)
                                IN  IF ~p.ok THEN p
                                    ELSE Ok([d |-> var.name] @@ (Slot(var) :> p.v))
                  IN  IF ~r.ok THEN r
                      ELSE IF Len(w.m) > 1 THEN Err(EExpectedValue)
                      ELSE r
        ELSE Err(EExpectedValue)

\* Deserialize of type T from wire value w with rem levels of nesting left.
Dec(T, w, rem) ==
    CASE T.k = "prim" -> DecPrim(T.p, w)
      [] T.k = "option" ->
            IF w.t = "null" THEN Ok(None)
            ELSE LET r == Dec(T.of, w, rem)
                 IN  IF ~r.ok THEN r ELSE Ok(Some(r.v))
      [] T.k = "vec" ->
            IF w.t # "arr" THEN Err(EInvalidType)
            ELSE IF rem - 1 = 0 THEN Err(ERecursion)
            ELSE DecElems(T.of, w.a, 1, rem - 1)
      [] T.k = "struct" ->
            IF w.t \notin {"obj", "arr"} THEN Err(EInvalidType)
            ELSE IF rem - 1 = 0 THEN Err(ERecursion)
            ELSE IF w.t = "obj"
                 THEN DecStructMap(Fields(T), w.m, 1, EmptyAcc, rem - 1)
                 ELSE DecStructSeq(Fields(T), w.a, 1, EmptyAcc, rem - 1)
      [] T.k = "enum" -> DecEnum(T, w, rem)
      [] T.k = "map" ->
            IF w.t # "obj" THEN Err(EInvalidType)
            ELSE IF rem - 1 = 0 THEN Err(ERecursion)
            ELSE DecMapEntries(T, w.m, 1, BTreeNew, rem - 1)
      [] T.k = "newtype" -> Dec(T.of, w, rem)

\* serde_json::from_str with the default recursion limit.
from_str(T, w) == Dec(T, w, RecursionLimit)

\* ------------------------------------------------------- in-memory values
Same == [d |-> "Same"]
Born(x) == [d |-> "Born", v |-> x]
Died(x) == [d |-> "Died", v |-> x]
Changed(a, b) == [d |-> "Changed", c |-> [from |-> a, to |-> b]]

DiffS(S) ==
    {Same} \cup {Born(x) : x \in S} \cup {Died(x) : x \in S}
           \cup {Changed(a, b) : a \in S, b \in S}

U256S == {0, 1}
BytesS == {<<>>, <<255>>}
H256S == {1, 2}

StorageS ==
    { BTreeNew,
      <<Entry(1, Same)>>,
      <<Entry(1, Born(2)), Entry(2, Changed(1, 2))>> }

AccountDiffS ==
    [ balance : DiffS(U256S),
      nonce : {Same, Died(1)},
      code : {Same, Changed(<<>>, <<255>>)},
      storage : StorageS ]

Account0 == [balance |-> Same, nonce |-> Same, code |-> Same, storage |-> BTreeNew]
Account1 ==
    [balance |-> Changed(0, 1), nonce |-> Born(1), code |-> Died(<<255>>),
     storage |-> <<Entry(1, Born(2)), Entry(2, Changed(1, 2))>>]

StateDiffS ==
    {BTreeNew}
        \cup {<<Entry(a, x)>> : a \in {1, 2}, x \in {Account0, Account1}}
        \cup {<<Entry(1, x), Entry(2, y)>> : x \in {Account0, Account1},
                                       y \in {Account0, Account1}}

TransactionTraceS ==
    [ trace_address : {<<>>, <<0, 1>>},
      subtraces : {0, 2},
      action : {"CallAction", "CreateAction"},
      action_type : {"Call", "Create"},
      result : {None, Some("CallRes")},
      error : {None, Some("Reverted")} ]

MemoryDiffS == [off : {0, 1}, data : BytesS]
StorageDiffS == [key : U256S, val : U256S]

VMExecutedOperationS ==
    [ used : {0, 1},
      push : {<<>>, <<1>>, <<0, 1>>},
      mem : {None, Some([off |-> 1, data |-> <<255>>])},
      store : {None, Some([key |-> 0, val |-> 1])} ]

Ex0 == [used |-> 0, push |-> <<>>, mem |-> None, store |-> None]
Ex1 ==
    [used |-> 1, push |-> <<0, 1>>, mem |-> Some([off |-> 1, data |-> <<255>>]),
     store |-> Some([key |-> 0, val |-> 1])]
LeafTrace == [code |-> <<255>>, ops |-> <<>>]

VMOperationS ==
    [ pc : {0, 1},
      cost : {0},
      ex : {None, Some(Ex0), Some(Ex1)},
      sub : {None, Some(LeafTrace)} ]

Op0 == [pc |-> 0, cost |-> 0, ex |-> None, sub |-> None]
Op1 == [pc |-> 1, cost |-> 0, ex |-> Some(Ex1), sub |-> Some(LeafTrace)]

VMTraceS ==
    [ code : BytesS,
      ops : {<<>>, <<Op0, Op1>>}
              \cup {<<o>> : o \in {x \in VMOperationS : x.pc = 0}} ]

Trace0 ==
    [trace_address |-> <<>>, subtraces |-> 2, action |-> "CallAction",
     action_type |-> "Call", result |-> Some("CallRes"), error |-> None]
Trace1 ==
    [trace_address |-> <<0, 1>>, subtraces |-> 0, action |-> "CreateAction",
     action_type |-> "Create", result |-> None, error |-> Some("Reverted")]

BlockTraceS ==
    [ output : BytesS,
      trace : {None, Some(<<>>), Some(<<Trace0, Trace1>>)},
      vm_trace : {None, Some([code |-> <<>>, ops |-> <<Op1>>])},
      state_diff : {None, Some(<<Entry(2, Account1)>>)},
      transaction_hash : {None, Some(1)} ]

\* The envelopes a batch is drawn from.
BatchElemS ==
    { [output |-> <<>>, trace |-> Some(<<Trace0, Trace1>>), vm_trace |-> None,
       state_diff |-> None, transaction_hash |-> Some(1)],
      [output |-> <<255>>, trace |-> Some(<<Trace1, Trace0>>), vm_trace |-> None,
       state_diff |-> Some(<<Entry(2, Account1)>>), transaction_hash |-> Some(2)],
      [output |-> <<255>>, trace |-> None,
       vm_trace |-> Some([code |-> <<>>, ops |-> <<Op1>>]),
       state_diff |-> None, transaction_hash |-> None] }

SeqsUpTo(S, n) == UNION {[1..k -> S] : k \in 0..n}

TraceTypeS == {[d |-> "Trace"], [d |-> "VmTrace"], [d |-> "StateDiff"]}

Types ==
    { "Diff<U256>", "Diff<Bytes>", "Diff<H256>", "AccountDiff", "StateDiff",
      "TransactionTrace", "VMTrace", "VMOperation", "VMExecutedOperation",
      "MemoryDiff", "StorageDiff", "BlockTrace", "Vec<BlockTrace>",
      "Vec<TraceType>" }

TypeOf(t) ==
    CASE t = "Diff<U256>" -> DiffT(U256T)
      [] t = "Diff<Bytes>" -> DiffT(BytesT)
      [] t = "Diff<H256>" -> DiffT(H256T)
      [] t = "StateDiff" -> StateDiff
      [] t = "Vec<BlockTrace>" -> VecT(StructT("BlockTrace"))
      [] t = "Vec<TraceType>" -> VecT(EnumT("TraceType", PrimT("unit")))
      [] OTHER -> StructT(t)

Values(t) ==
    CASE t = "Diff<U256>" -> DiffS(U256S)
      [] t = "Diff<Bytes>" -> DiffS(BytesS)
      [] t = "Diff<H256>" -> DiffS(H256S)
      [] t = "AccountDiff" -> AccountDiffS
      [] t = "StateDiff" -> StateDiffS
      [] t = "TransactionTrace" -> TransactionTraceS
      [] t = "VMTrace" -> VMTraceS
      [] t = "VMOperation" -> VMOperationS
      [] t = "VMExecutedOperation" -> VMExecutedOperationS
      [] t = "MemoryDiff" -> MemoryDiffS
      [] t = "StorageDiff" -> StorageDiffS
      [] t = "BlockTrace" -> BlockTraceS
      [] t = "Vec<BlockTrace>" -> SeqsUpTo(BatchElemS, MaxBatch)
      [] t = "Vec<TraceType>" -> SeqsUpTo(TraceTypeS, MaxTypes)

\* Only TraceType lacks a Deserialize derive.
Deserializable(t) == t # "Vec<TraceType>"

\* ------------------------------------------------- payloads handed to Diff
TagS == {"=", "+", "-", "*", "?"}

PayloadS ==
    { JNull, JStr("0x0"), JStr("0x1"), JStr("zz"), JNum(1),
      JObj(<<KV("from", JStr("0x0"))>>),
      JObj(<<KV("to", JStr("0x1"))>>),
      JObj(<<KV("from", JStr("0x0")), KV("to", JStr("0x1"))>>),
      JObj(<<KV("to", JStr("0x1")), KV("from", JStr("0x0"))>>),
      JObj(<<KV("from", JStr("0x0")), KV("to", JStr("zz"))>>),
      JObj(<<KV("from", JStr("0x0")), KV("to", JStr("0x1")), KV("x", JNull)>>),
      JObj(<<KV("from", JStr("0x0")), KV("from", JStr("0x0")), KV("to", JStr("0x1"))>>),
      JObj(<<>>),
      JArr(<<JStr("0x0"), JStr("0x1")>>),
      JArr(<<JStr("0x0")>>),
      JArr(<<JStr("0x0"), JStr("0x1"), JStr("0x1")>>) }

DiffWireS ==
    {JStr(t) : t \in TagS}
        \cup {JObj(<<KV(t, p)>>) : t \in TagS, p \in PayloadS}
        \cup {JObj(<<KV(t, JStr("0x1")), KV(u, JStr("0x0"))>>) : t \in TagS, u \in TagS}
        \cup {JNull, JNum(0), JObj(<<>>), JArr(<<JStr("=")>>)}

Unset == [unset |-> TRUE]
NoItem == [none |-> TRUE]

\* ----------------------------------------------------------- measures
SetMax(S) == IF S = {} THEN 0 ELSE CHOOSE x \in S : \A y \in S : y <= x

\* Number of VMTrace levels on the longest VMTrace -> ops -> sub chain.
RECURSIVE Nesting(_)
Nesting(t) ==
    1 + SetMax({Nesting(t.ops[i].sub.val) :
                  i \in {j \in 1..Len(t.ops) : t.ops[j].sub.some}})

\* Number of arrays and objects open at the deepest point of a wire value.
RECURSIVE JsonDepth(_)
JsonDepth(w) ==
    CASE w.t = "arr" -> 1 + SetMax({JsonDepth(w.a[i]) : i \in 1..Len(w.a)})
      [] w.t = "obj" -> 1 + SetMax({JsonDepth(w.m[i].v) : i \in 1..Len(w.m)})
      [] OTHER -> 0

\* A CALL/CREATE frame around trace t: a VMTrace whose one VMOperation owns t
\* as its sub-trace.  The machine keeps a chain of such frames as a count
\* (frames) around the innermost trace (val), and the payload likewise.
WrapOp(t) == [pc |-> 0, cost |-> 0, ex |-> None, sub |-> Some(t)]
WrapTrace(t) == [code |-> <<>>, ops |-> <<WrapOp(t)>>]

\* Containers one frame opens before its sub-trace: the VMTrace object, the
\* ops array, the VMOperation object.
FrameDepth == Len(<<"VMTrace", "ops", "VMOperation">>)

RemoveAt(q, i) == [j \in 1..(Len(q) - 1) |-> IF j < i THEN q[j] ELSE q[j + 1]]

\* ------------------------------------------------------------ the machine
\* ty/val: the type and in-memory value at hand; for a VMTrace, frames counts
\* the call frames wrapped around val.  ser: what to_string returned.  wire:
\* the payload handed to from_str (inside the same frames).  dropped: the keys
\* left out of it.  left: the frames the decoder has still to enter; remaining_depth: its
\* nesting budget.  res: what from_str returned (the value inside the frames).
\* wire2: the re-encoding of res.  mapA/mapB: two StateDiff maps under
\* construction, insA/insB what was inserted into each.
Init ==
    /\ \/ /\ origin = "value"
          /\ ty \in Types
          /\ val \in Values(ty)
          /\ wire = JNull
          /\ pc = "value"
       \/ /\ origin = "given"
          /\ ty = "Diff<U256>"
          /\ val = Unset
          /\ wire \in DiffWireS
          /\ pc = "wire"
    /\ frames = 0
    /\ ser = Unset
    /\ dropped = {}
    /\ left = 0
    /\ remaining_depth = RecursionLimit
    /\ res = Unset
    /\ wire2 = JNull
    /\ mapA = BTreeNew
    /\ mapB = BTreeNew
    /\ insA = {}
    /\ insB = {}
    /\ lastA = NoItem
    /\ lastB = NoItem

\* Nest the VMTrace under construction one call frame deeper.
Wrap ==
    /\ pc = "value"
    /\ ty = "VMTrace"
    /\ frames + Nesting(val) < MaxNest
    /\ frames' = frames + 1
    /\ UNCHANGED <<ty, val, origin, ser, wire, dropped, left, remaining_depth, res, wire2, pc,
                   mapA, mapB, insA, insB, lastA, lastB>>

\* serde_json::to_string(&val)
Encode ==
    /\ pc = "value"
    /\ ser' = to_string(TypeOf(ty), val)
    /\ wire' = IF ser'.ok THEN ser'.v ELSE JNull
    /\ pc' = IF ser'.ok THEN "wire" ELSE "failed"
    /\ UNCHANGED <<ty, val, frames, origin, dropped, left, remaining_depth, res, wire2,
                   mapA, mapB, insA, insB, lastA, lastB>>

\* The producer leaves one key of the struct's object out of the payload.
DropKey ==
    /\ pc = "wire"
    /\ origin = "value"
    /\ frames = 0
    /\ TypeOf(ty).k = "struct"
    /\ Cardinality(dropped) < MaxDrops
    /\ \E i \in 1..Len(wire.m) :
          /\ wire' = JObj(RemoveAt(wire.m, i))
          /\ dropped' = dropped \cup {wire.m[i].k}
    /\ UNCHANGED <<ty, val, frames, origin, ser, left, remaining_depth, res, wire2, pc,
                   mapA, mapB, insA, insB, lastA, lastB>>

\* serde_json::from_str(wire) of a payload with no frame around it.
Decode ==
    /\ pc = "wire"
    /\ Deserializable(ty)
    /\ frames = 0
    /\ res' = from_str(TypeOf(ty), wire)
    /\ pc' = "decoded"
    /\ UNCHANGED <<ty, val, frames, origin, ser, wire, dropped, left, remaining_depth, wire2,
                   mapA, mapB, insA, insB, lastA, lastB>>

\* serde_json::from_str(wire) of a payload inside frames: the decoder starts
\* at the outermost frame with the default remaining_depth.
DecodeStart ==
    /\ pc = "wire"
    /\ frames > 0
    /\ left' = frames
    /\ remaining_depth' = RecursionLimit
    /\ pc' = "decoding"
    /\ UNCHANGED <<ty, val, frames, origin, ser, wire, dropped, res, wire2,
                   mapA, mapB, insA, insB, lastA, lastB>>

\* The decoder enters one frame: check_recursion for the VMTrace object, for
\* the ops array and for the VMOperation object, then sub.
DecodeFrame ==
    /\ pc = "decoding"
    /\ left > 0
    /\ IF remaining_depth - FrameDepth <= 0
       THEN /\ res' = Err(ERecursion)
            /\ pc' = "decoded"
            /\ UNCHANGED <<left, remaining_depth>>
       ELSE /\ left' = left - 1
            /\ remaining_depth' = remaining_depth - FrameDepth
            /\ UNCHANGED <<res, pc>>
    /\ UNCHANGED <<ty, val, frames, origin, ser, wire, dropped, wire2,
                   mapA, mapB, insA, insB, lastA, lastB>>

\* The decoder reaches the innermost trace with what is left of the depth.
DecodeInner ==
    /\ pc = "decoding"
    /\ left = 0
    /\ res' = Dec(TypeOf(ty), wire, remaining_depth)
    /\ pc' = "decoded"
    /\ UNCHANGED <<ty, val, frames, origin, ser, wire, dropped, left, remaining_depth, wire2,
                   mapA, mapB, insA, insB, lastA, lastB>>

\* serde_json::to_string of the value just decoded.
ReEncode ==
    /\ pc = "decoded"
    /\ res.ok
    /\ wire2' = to_string(TypeOf(ty), res.v).v
    /\ pc' = "reencoded"
    /\ UNCHANGED <<ty, val, frames, origin, ser, wire, dropped, left, remaining_depth, res,
                   mapA, mapB, insA, insB, lastA, lastB>>

Next ==
    \/ Wrap
    \/ Encode
    \/ DropKey
    \/ Decode
    \/ DecodeStart
    \/ DecodeFrame
    \/ DecodeInner
    \/ ReEncode

Spec == Init /\ [][Next]_vars

\* ------------------------------------------- building StateDiff maps
\* What is inserted: an account at an address, or a storage diff at a key of
\* an account already in the map.  The value inserted is fixed by the key.
AddrS == 1..MaxAddr
AccountItem(a) == [addr |-> a]
StorageItem(a, k) == [addr |-> a, skey |-> k]

AccountAt(a) ==
    [balance |-> IF a = 1 THEN Same ELSE Changed(0, 1),
     nonce |-> Born(1), code |-> Same, storage |-> BTreeNew]
DiffAt(a, k) == IF k = 1 THEN Born(a) ELSE Changed(k, a)

\* storage.insert(k, d) on the account the map holds at address a.
InsertStorage(m, a, k, d) ==
    [i \in 1..Len(m) |->
        IF m[i].key = a
        THEN Entry(a, [m[i].value EXCEPT !.storage = BTreeInsert(@, k, d)])
        ELSE m[i]]

InitOrder ==
    /\ ty = "StateDiff"
    /\ val = Unset
    /\ frames = 0
    /\ origin = "built"
    /\ ser = Unset
    /\ wire = JNull
    /\ dropped = {}
    /\ left = 0
    /\ remaining_depth = RecursionLimit
    /\ res = Unset
    /\ wire2 = JNull
    /\ pc = "build"
    /\ mapA = BTreeNew
    /\ mapB = BTreeNew
    /\ insA = {}
    /\ insB = {}
    /\ lastA = NoItem
    /\ lastB = NoItem

Frozen == <<ty, val, frames, origin, ser, dropped, left, remaining_depth, res>>

InsertAccountA ==
    /\ pc = "build"
    /\ \E a \in AddrS \ BTreeKeys(mapA) :
          /\ mapA' = BTreeInsert(mapA, a, AccountAt(a))
          /\ insA' = insA \cup {AccountItem(a)}
          /\ lastA' = AccountItem(a)
    /\ UNCHANGED <<Frozen, wire, wire2, pc, mapB, insB, lastB>>

InsertStorageA ==
    /\ pc = "build"
    /\ \E a \in BTreeKeys(mapA) :
       \E k \in H256S \ BTreeKeys(BTreeGet(mapA, a).storage) :
          /\ mapA' = InsertStorage(mapA, a, k, DiffAt(a, k))
          /\ insA' = insA \cup {StorageItem(a, k)}
          /\ lastA' = StorageItem(a, k)
    /\ UNCHANGED <<Frozen, wire, wire2, pc, mapB, insB, lastB>>

InsertAccountB ==
    /\ pc = "build"
    /\ \E a \in AddrS \ BTreeKeys(mapB) :
          /\ mapB' = BTreeInsert(mapB, a, AccountAt(a))
          /\ insB' = insB \cup {AccountItem(a)}
          /\ lastB' = AccountItem(a)
    /\ UNCHANGED <<Frozen, wire, wire2, pc, mapA, insA, lastA>>

InsertStorageB ==
    /\ pc = "build"
    /\ \E a \in BTreeKeys(mapB) :
       \E k \in H256S \ BTreeKeys(BTreeGet(mapB, a).storage) :
          /\ mapB' = InsertStorage(mapB, a, k, DiffAt(a, k))
          /\ insB' = insB \cup {StorageItem(a, k)}
          /\ lastB' = StorageItem(a, k)
    /\ UNCHANGED <<Frozen, wire, wire2, pc, mapA, insA, lastA>>

\* serde_json::to_string of both maps.
EncodeBoth ==
    /\ pc = "build"
    /\ wire' = to_string(StateDiff, mapA).v
    /\ wire2' = to_string(StateDiff, mapB).v
    /\ pc' = "encodedAB"
    /\ UNCHANGED <<Frozen, mapA, mapB, insA, insB, lastA, lastB>>

NextOrder ==
    \/ InsertAccountA
    \/ InsertStorageA
    \/ InsertAccountB
    \/ InsertStorageB
    \/ EncodeBoth

SpecOrder == InitOrder /\ [][NextOrder]_vars

\* ================================================================ claims
ObjHas(o, key) == \E i \in 1..Len(o.m) : o.m[i].k = key
ObjGet(o, key) == o.m[CHOOSE i \in 1..Len(o.m) : o.m[i].k = key].v
\* A key that is absent from the object or carries an explicit null.
ObjAbsent(o, key) == ~ObjHas(o, key) \/ ObjGet(o, key).t = "null"

\* The nesting of the whole payload: the frames and what they enclose.
WireDepth == frames * FrameDepth + JsonDepth(wire)

RoundTripTypes ==
    { "Diff<U256>", "Diff<Bytes>", "Diff<H256>", "AccountDiff", "StateDiff",
      "TransactionTrace", "VMTrace", "BlockTrace" }

\* C1 (as claimed): for every value V of Diff<T>, AccountDiff, StateDiff,
\* TransactionTrace, VMTrace and BlockTrace, decoding the encoding of V
\* succeeds and yields V.
C1_RoundTrip ==
    ( /\ pc = "decoded"
      /\ origin = "value"
      /\ dropped = {}
      /\ ty \in RoundTripTypes )
        => res = Ok(val)

\* What does hold: the round trip of every value whose encoding nests less
\* deep than the decoder's recursion limit.
RoundTripWithinLimit ==
    ( /\ pc = "decoded"
      /\ origin = "value"
      /\ dropped = {}
      /\ ty \in RoundTripTypes
      /\ WireDepth < RecursionLimit )
        => res = Ok(val)

\* ---- C2
DiffTags == {"=", "+", "-", "*"}
HasTag(w) == w.t = "str" \/ (w.t = "obj" /\ Len(w.m) = 1)
TagOf(w) == IF w.t = "str" THEN w.s ELSE w.m[1].k
HasPayload(w) == w.t = "obj"
PayloadOf(w) == w.m[1].v
Lacks(p, key) == p.t = "obj" /\ ~ObjHas(p, key)
ValidU256(p) == \E n \in U256S : p = JStr(IF n = 0 THEN "0x0" ELSE "0x1")
U256Of(p) == IF p = JStr("0x0") THEN 0 ELSE 1
IsFromTo(p) ==
    /\ p.t = "obj"
    /\ Len(p.m) = 2
    /\ ObjHas(p, "from") /\ ValidU256(ObjGet(p, "from"))
    /\ ObjHas(p, "to") /\ ValidU256(ObjGet(p, "to"))
\* The wire grammar of Diff<U256>, and the value each payload stands for.
WellFormedDiff(w) ==
    \/ w = JStr("=")
    \/ /\ w.t = "obj" /\ Len(w.m) = 1
       /\ \/ TagOf(w) \in {"+", "-"} /\ ValidU256(PayloadOf(w))
          \/ TagOf(w) = "*" /\ IsFromTo(PayloadOf(w))
ExpectedDiff(w) ==
    CASE TagOf(w) = "=" -> Same
      [] TagOf(w) = "+" -> Born(U256Of(PayloadOf(w)))
      [] TagOf(w) = "-" -> Died(U256Of(PayloadOf(w)))
      [] TagOf(w) = "*" -> Changed(U256Of(ObjGet(PayloadOf(w), "from")),
                                   U256Of(ObjGet(PayloadOf(w), "to")))
SchemaError(r) == ~r.ok /\ r.err # ERecursion

\* C2 (as claimed): decoding a Diff fails with a schema error when the tag is
\* not one of the four, when the tag is "*" and the payload lacks from or to,
\* and when the tag is "=" and any payload is present; every well-formed
\* payload yields the variant its tag names.
C2_Original ==
    (pc = "decoded" /\ origin = "given" /\ HasTag(wire)) =>
        /\ TagOf(wire) \notin DiffTags => SchemaError(res)
        /\ ( /\ TagOf(wire) = "*" /\ HasPayload(wire)
             /\ Lacks(PayloadOf(wire), "from") \/ Lacks(PayloadOf(wire), "to") )
                => SchemaError(res)
        /\ (TagOf(wire) = "=" /\ HasPayload(wire)) => SchemaError(res)
        /\ WellFormedDiff(wire) => res = Ok(ExpectedDiff(wire))

\* C2 (amended): as claimed, except that with the tag "=" only a payload other
\* than null is an error: {"=": null} decodes to Same.
C2_TagDispatch ==
    (pc = "decoded" /\ origin = "given" /\ HasTag(wire)) =>
        /\ TagOf(wire) \notin DiffTags => SchemaError(res)
        /\ ( /\ TagOf(wire) = "*" /\ HasPayload(wire)
             /\ Lacks(PayloadOf(wire), "from") \/ Lacks(PayloadOf(wire), "to") )
                => SchemaError(res)
        /\ (TagOf(wire) = "=" /\ HasPayload(wire) /\ PayloadOf(wire).t # "null")
                => SchemaError(res)
        /\ (TagOf(wire) = "=" /\ HasPayload(wire) /\ PayloadOf(wire).t = "null")
                => res = Ok(Same)
        /\ WellFormedDiff(wire) => res = Ok(ExpectedDiff(wire))

\* C2 witness: {"=": "0x0"}, the tag of Same with a payload, was refused.
C2_Witness ==
    /\ pc = "decoded"
    /\ origin = "given"
    /\ wire = JObj(<<KV("=", JStr("0x0"))>>)
    /\ SchemaError(res)

\* ---- C3
\* The deepest chain of frames any VMTrace payload can have and still decode.
MaxNesting == RecursionLimit \div FrameDepth

\* C3 (as claimed): decoding a VMTrace of nesting depth N fails with the depth
\* error when N is greater than the maximum and succeeds when N equals it.
C3_DepthGuard ==
    (pc = "decoded" /\ ty = "VMTrace" /\ origin = "value" /\ dropped = {}) =>
        LET N == frames + Nesting(val)
        IN  /\ N > MaxNesting => res = Err(ERecursion)
            /\ N = MaxNesting => res.ok

\* ---- C4
NonNull(o, key) == ObjHas(o, key) /\ ObjGet(o, key).t # "null"

\* C4 (as claimed): decoding a TransactionTrace payload whose result and error
\* are both non-null fails.
C4_RejectBoth ==
    ( /\ pc = "decoded"
      /\ ty = "TransactionTrace"
      /\ NonNull(wire, "result")
      /\ NonNull(wire, "error") )
        => ~res.ok

\* C5 (as claimed): encoding a TransactionTrace with both result and error set
\* fails instead of producing a wire value.
C5_EncodeRejectsBoth ==
    ( /\ pc \in {"wire", "failed"}
      /\ origin = "value"
      /\ ty = "TransactionTrace"
      /\ val.result.some
      /\ val.error.some )
        => ~ser.ok

\* ---- C6
KeyNumbers(o, K) == [i \in 1..Len(o.m) |-> DecPrim(K, JStr(o.m[i].k)).v]
Ascending(q) == \A i \in 1..(Len(q) - 1) : q[i] < q[i + 1]

\* C6: two StateDiff maps into which the same accounts and, within each
\* account, the same storage diffs were inserted, in whatever order, are equal
\* and encode to the same output, with addresses and storage keys ascending.
C6_OrderIndependent ==
    insA = insB =>
        /\ mapA = mapB
        /\ pc = "encodedAB" =>
              /\ wire = wire2
              /\ Ascending(KeyNumbers(wire, "H160"))
              /\ \A i \in 1..Len(wire.m) :
                    Ascending(KeyNumbers(ObjGet(wire.m[i].v, "storage"), "H256"))

\* C6 witness: both maps hold two accounts, one with two storage keys, got
\* them in different orders, and have been encoded.
C6_Witness ==
    /\ pc = "encodedAB"
    /\ insA = insB
    /\ lastA # lastB
    /\ Len(mapA) >= 2
    /\ \E i \in 1..Len(mapA) : Len(mapA[i].value.storage) >= 2

\* ---- C7
OptionalEnvelope ==
    {<<"trace", "trace">>, <<"vm_trace", "vmTrace">>,
     <<"state_diff", "stateDiff">>, <<"transaction_hash", "transactionHash">>}
OnlyOutputAndTrace(w) ==
    /\ NonNull(w, "output")
    /\ NonNull(w, "trace")
    /\ ObjAbsent(w, "vmTrace")
    /\ ObjAbsent(w, "stateDiff")
    /\ ObjAbsent(w, "transactionHash")

\* C7: a BlockTrace payload with only output and trace populated decodes with
\* vm_trace, state_diff and transaction_hash absent, and re-encodes with those
\* three absent again and output and trace unchanged; each of the four
\* optional fields is present in the value exactly when its own key is present
\* and non-null in the payload.
C7_AbsenceSymmetric ==
    (pc \in {"decoded", "reencoded"} /\ ty = "BlockTrace" /\ "output" \notin dropped) =>
        /\ res.ok
        /\ \A f \in OptionalEnvelope : res.v[f[1]].some = NonNull(wire, f[2])
        /\ OnlyOutputAndTrace(wire) =>
              /\ res.v.vm_trace = None
              /\ res.v.state_diff = None
              /\ res.v.transaction_hash = None
              /\ res.v.output = val.output
              /\ res.v.trace = val.trace
              /\ pc = "reencoded" =>
                    /\ OnlyOutputAndTrace(wire2)
                    /\ ObjGet(wire2, "output") = ObjGet(wire, "output")
                    /\ ObjGet(wire2, "trace") = ObjGet(wire, "trace")

\* C7 witness: a payload from which the three keys were left out, with a
\* non-empty trace list, has been decoded and re-encoded.
C7_Witness ==
    /\ pc = "reencoded"
    /\ ty = "BlockTrace"
    /\ dropped = {"vmTrace", "stateDiff", "transactionHash"}
    /\ val.trace.some
    /\ Len(val.trace.val) = 2

\* ---- C8
TagOfTraceType(d) ==
    CASE d = "Trace" -> "trace"
      [] d = "VmTrace" -> "vmTrace"
      [] d = "StateDiff" -> "stateDiff"

\* C8: encoding a sequence of TraceType values emits, element by element and
\* in the same order, "trace" for Trace, "vmTrace" for VmTrace and "stateDiff"
\* for StateDiff; [Trace, VmTrace, StateDiff] gives ["trace","vmTrace","stateDiff"].
C8_TraceTypeTags ==
    (pc = "wire" /\ ty = "Vec<TraceType>") =>
        /\ ser.ok
        /\ wire.t = "arr"
        /\ Len(wire.a) = Len(val)
        /\ \A i \in 1..Len(val) : wire.a[i] = JStr(TagOfTraceType(val[i].d))
        /\ val = <<[d |-> "Trace"], [d |-> "VmTrace"], [d |-> "StateDiff"]>>
              => wire = JArr(<<JStr("trace"), JStr("vmTrace"), JStr("stateDiff")>>)

\* C8 witness: [Trace, VmTrace, StateDiff] has been encoded.
C8_Witness ==
    /\ pc = "wire"
    /\ ty = "Vec<TraceType>"
    /\ val = <<[d |-> "Trace"], [d |-> "VmTrace"], [d |-> "StateDiff"]>>
    /\ wire = JArr(<<JStr("trace"), JStr("vmTrace"), JStr("stateDiff")>>)

\* ---- C9
\* C9: decoding a batch of n well-formed BlockTrace payloads yields exactly n
\* values, the i-th being the decoding of the i-th payload, and the trace list
\* inside each keeps the order of the payload's list.
C9_BatchOrder ==
    (pc = "decoded" /\ ty = "Vec<BlockTrace>") =>
        /\ res.ok
        /\ Len(res.v) = Len(wire.a)
        /\ res.v = val
        /\ \A i \in 1..Len(wire.a) :
              /\ Ok(res.v[i]) = from_str(StructT("BlockTrace"), wire.a[i])
              /\ res.v[i].trace.some =>
                    LET list == ObjGet(wire.a[i], "trace").a
                    IN  /\ Len(res.v[i].trace.val) = Len(list)
                        /\ \A j \in 1..Len(list) :
                              Ok(res.v[i].trace.val[j])
                                = from_str(StructT("TransactionTrace"), list[j])

\* C9 witness: a batch of two different envelopes, the first with a trace list
\* of two different traces, has been decoded.
C9_Witness ==
    /\ pc = "decoded"
    /\ ty = "Vec<BlockTrace>"
    /\ Len(val) = 2
    /\ val[1] # val[2]
    /\ val[1].trace.some
    /\ res.ok

\* ---- C10
VMTypes == {"VMTrace", "VMOperation", "VMExecutedOperation", "MemoryDiff", "StorageDiff"}
OptionalTelemetry == {"ex", "sub", "mem", "store"}
RequiredVM == {"code", "ops", "pc", "cost", "used", "off", "data", "key", "val"}
VMPayloadWithKeysLeftOut ==
    /\ pc = "decoded"
    /\ ty \in VMTypes
    /\ origin = "value"
    /\ frames = 0
    /\ dropped # {}

\* C10 (as claimed): a payload of a VM-trace type that leaves out ex, sub, mem,
\* store or push decodes; one that leaves out a required field does not.
C10_Original ==
    VMPayloadWithKeysLeftOut =>
        /\ dropped \subseteq (OptionalTelemetry \cup {"push"}) => res.ok
        /\ dropped \cap RequiredVM # {} => ~res.ok

\* C10 (amended): an object payload that leaves out only ex, sub, mem or store
\* decodes, with the fields left out absent and the others as sent; one that
\* leaves out a required field, push included, fails with a missing field.
C10_AbsentFields ==
    VMPayloadWithKeysLeftOut =>
        /\ dropped \subseteq OptionalTelemetry =>
              /\ res.ok
              /\ \A f \in DOMAIN val :
                    res.v[f] = IF f \in dropped THEN None ELSE val[f]
        /\ dropped \cap (RequiredVM \cup {"push"}) # {} => res = Err(EMissing)

\* C10 witness: a VMExecutedOperation payload without push was refused.
C10_Witness ==
    /\ pc = "decoded"
    /\ ty = "VMExecutedOperation"
    /\ dropped = {"push"}
    /\ res = Err(EMissing)

====
